---- MODULE Spec2Model ----
(***************************************************************************)
(* Model of gsp_adf_source/adf.py: the ADFSource extractor.                *)
(*                                                                         *)
(* JSON values are encoded as follows.  A string-valued field holds the    *)
(* string itself, or Missing when the key is not in the dict, or Null when *)
(* the key is present with the JSON value null.  A dict-valued field is a  *)
(* record with a "kind" saying whether the key is missing, null, a dict,   *)
(* or a value of another JSON type.  Python's None is Null.                *)
(***************************************************************************)
EXTENDS Integers, Sequences, FiniteSets, TLC

VARIABLES
    opts,       \* connectionOptions.__root__ handed to __init__: the set of keys it holds
    inst,       \* the instance: "new" (before __init__), "constructed", "failed" (__init__ raised)
    raised,     \* the exception __init__ or the generator last propagated, NoError if it did not raise
    tokenResp,  \* the response the token endpoint gave __init__
    token,      \* self.token
    sessAuth,   \* self.sess.headers["Authorization"]
    api_version,\* self.api_version
    closed,     \* self.sess.close() has been called
    netlog,     \* every HTTP request issued so far, in order
    gen,        \* the generator of next_record: "none", "created", "suspended", "exhausted", "raised"
    page,       \* the listing response the current generator received
    listed,     \* what _list_pipelines returned to the current generator
    idx,        \* how many pipelines the current generator has taken from listed
    emitted,    \* the records the current generator has yielded
    passes,     \* how many generators next_record has created
    arg,        \* argument of a direct call of _build_tasks / _arm
    ret         \* what that call returned or raised

vars == <<opts, inst, raised, tokenResp, token, sessAuth, api_version, closed, netlog,
          gen, page, listed, idx, emitted, passes, arg, ret>>

-----------------------------------------------------------------------------
(* Bounds of the model *)

MaxActs == 1       \* longest activity list handed to a direct _build_tasks call
MaxPipes == 2      \* most pipelines in one listing page
MaxPasses == 2     \* most generators created on one instance

-----------------------------------------------------------------------------
(* JSON / Python value helpers *)

Missing == "<missing>"
Null == "<null>"

\* d.get(key): None when the key is missing
DictGet(v) == IF v = Missing THEN Null ELSE v

\* Python truth value of a str-or-None
Truthy(v) == v # Null /\ v # ""

\* v or d
OrElse(v, d) == IF Truthy(v) THEN v ELSE d

\* an exception: its class, the HTTP status it carries (requests.HTTPError.response)
\* and the key it names (KeyError)
NoError == [type |-> "none", status |-> 0, key |-> ""]
Exc(t) == [type |-> t, status |-> 0, key |-> ""]
HTTPError(status) == [type |-> "HTTPError", status |-> status, key |-> ""]
KeyError(k) == [type |-> "KeyError", status |-> 0, key |-> k]

\* a dict as a set of <<key, value>> pairs; d.update(e) lets e's pairs win
DictUpdate(d, e) == {kv \in d : \A kw \in e : kw[1] # kv[1]} \cup e

\* a list-or-None attribute: downstreamTasks=None versus downstreamTasks=[...]
NoneList == [isNone |-> TRUE, items |-> <<>>]
SomeList(s) == [isNone |-> FALSE, items |-> s]

-----------------------------------------------------------------------------
(* _build_tasks *)

\* tp = act.get("typeProperties", {}): the default only replaces a missing key
GetTypeProperties(act) ==
    IF act.typeProperties.kind = "missing"
    THEN [kind |-> "dict", sink |-> [kind |-> "missing", type |-> Missing]]
    ELSE act.typeProperties

\* (tp.get("sink", {}) or {}).get("type")
\* tp.get raises AttributeError unless tp is a dict; a missing, null or falsy
\* sink becomes {}; a truthy sink that is no dict has no .get either.
SinkType(tp) ==
    IF tp.kind # "dict" THEN [raised |-> Exc("AttributeError"), value |-> Null]
    ELSE IF tp.sink.kind \in {"missing", "null", "falsy"}
         THEN [raised |-> NoError, value |-> Null]
    ELSE IF tp.sink.kind # "dict"
         THEN [raised |-> Exc("AttributeError"), value |-> Null]
    ELSE [raised |-> NoError, value |-> DictGet(tp.sink.type)]

\* act_type == "Copy"
IsCopy(act_type) == act_type = "Copy"

\* deps = []; if act_type == "Copy": ...; if sink: deps.append(sink)
Deps(act) ==
    IF IsCopy(DictGet(act.type))
    THEN LET s == SinkType(GetTypeProperties(act))
         IN  IF s.raised # NoError THEN [raised |-> s.raised, value |-> <<>>]
             ELSE [raised |-> NoError,
                   value |-> IF Truthy(s.value) THEN <<s.value>> ELSE <<>>]
    ELSE [raised |-> NoError, value |-> <<>>]

\* variant: downstreamTasks=deps, an empty list kept as a list
DownstreamTasksKeepEmpty(deps) == SomeList(deps)
\* deps or None
DownstreamTasks(deps) == IF deps = <<>> THEN NoneList ELSE SomeList(deps)

\* variant: the fallback replaces None only, an empty name is kept
TaskNameNoneOnly(name) == IF name = Null THEN "activity" ELSE name
\* name or "activity"
TaskName(name) == OrElse(name, "activity")

\* act_type or "Activity"
TaskType(act_type) == OrElse(act_type, "Activity")

\* one turn of the loop body: the Task appended, or the exception raised
BuildTask(act) ==
    LET name == DictGet(act.name)
        act_type == DictGet(act.type)
        deps == Deps(act)
    IN  IF deps.raised # NoError THEN [raised |-> deps.raised, value |-> <<>>]
        ELSE [raised |-> NoError,
              value |-> << [name |-> TaskName(name),
                            taskType |-> TaskType(act_type),
                            downstreamTasks |-> DownstreamTasks(deps.value)] >>]

RECURSIVE BuildLoop(_, _)
BuildLoop(items, tasks) ==
    IF items = <<>> THEN [raised |-> NoError, value |-> tasks]
    ELSE LET t == BuildTask(Head(items))
         IN  IF t.raised # NoError THEN [raised |-> t.raised, value |-> <<>>]
             ELSE BuildLoop(Tail(items), tasks \o t.value)

\* variant: tasks.insert(0, ...) in place of tasks.append(...)
BuildTasksReversed(activities) ==
    IF activities.kind # "list" THEN [raised |-> NoError, value |-> <<>>]
    ELSE LET r == BuildLoop(activities.items, <<>>)
         IN  [raised |-> r.raised,
              value |-> [i \in 1..Len(r.value) |-> r.value[Len(r.value) + 1 - i]]]
\* for act in activities or []: a None or empty argument gives no tasks
BuildTasks(activities) ==
    IF activities.kind # "list" THEN [raised |-> NoError, value |-> <<>>]
    ELSE BuildLoop(activities.items, <<>>)

-----------------------------------------------------------------------------
(* Input domains *)

NameValues == {Missing, Null, "", "a1", "a2"}
TypeValues == {Missing, Null, "", "Copy", "copy", "Wait"}
SinkTypeValues == {Missing, Null, "", "BlobSink", "AzureBlobSink"}

NoSink(k) == [kind |-> k, type |-> Missing]
SinkValues ==
    {NoSink(k) : k \in {"missing", "null", "falsy", "other"}}
    \cup {[kind |-> "dict", type |-> t] : t \in SinkTypeValues}

TypePropertiesValues ==
    {[kind |-> k, sink |-> NoSink("missing")] : k \in {"missing", "null", "other"}}
    \cup {[kind |-> "dict", sink |-> s] : s \in SinkValues}

Activities ==
    [name : NameValues, type : TypeValues, typeProperties : TypePropertiesValues]

SeqsUpTo(S, n) == UNION {[1..k -> S] : k \in 0..n}

ActivityLists(S, n) ==
    {[kind |-> "null", items |-> <<>>]}
    \cup {[kind |-> "list", items |-> s] : s \in SeqsUpTo(S, n)}

-----------------------------------------------------------------------------
(* Direct calls of _build_tasks *)

InitIdle ==
    /\ opts = {}
    /\ inst = "new"
    /\ raised = NoError
    /\ tokenResp = [kind |-> "none"]
    /\ token = Null
    /\ sessAuth = [scheme |-> "none", credentials |-> Null]
    /\ api_version = Missing
    /\ closed = FALSE
    /\ netlog = <<>>
    /\ gen = "none"
    /\ page = [kind |-> "none"]
    /\ listed = <<>>
    /\ idx = 0
    /\ emitted = <<>>
    /\ passes = 0

InitTasks ==
    /\ InitIdle
    /\ arg \in ActivityLists(Activities, MaxActs)
    /\ ret = [state |-> "pending", raised |-> NoError, value |-> <<>>]

CallBuildTasks ==
    /\ ret.state = "pending"
    /\ LET r == BuildTasks(arg)
       IN  ret' = [state |-> "done", raised |-> r.raised, value |-> r.value]
    /\ UNCHANGED <<opts, inst, raised, tokenResp, token, sessAuth, api_version, closed, netlog,
                   gen, page, listed, idx, emitted, passes, arg>>

NextTasks == CallBuildTasks

SpecTasks == InitTasks /\ [][NextTasks]_vars

-----------------------------------------------------------------------------
(* Configuration and token acquisition *)

\* the keys __init__ reads with opts[...], in the order it reads them
RequiredKeys ==
    << "subscription_id", "resource_group", "factory_name", "tenant_id",
       "client_id", "client_secret", "service_name" >>

Required == {RequiredKeys[i] : i \in 1..Len(RequiredKeys)}

\* the value the configuration holds under a key it has
OptValue(k) ==
    CASE k = "subscription_id" -> "s1"
      [] k = "resource_group" -> "rg1"
      [] k = "factory_name" -> "f1"
      [] k = "tenant_id" -> "t1"
      [] k = "client_id" -> "c1"
      [] k = "client_secret" -> "secret"
      [] k = "service_name" -> "svc"

\* variant: service_name read with opts.get(...), which never raises
FirstMissingButLast(o) ==
    IF \E i \in 1..(Len(RequiredKeys) - 1) : RequiredKeys[i] \notin o
    THEN CHOOSE i \in 1..(Len(RequiredKeys) - 1) :
            /\ RequiredKeys[i] \notin o
            /\ \A j \in 1..(i - 1) : RequiredKeys[j] \in o
    ELSE 0
\* the first opts[k] that raises KeyError, 0 when every required key is there
RECURSIVE FirstMissingFrom(_, _)
FirstMissingFrom(o, i) ==
    IF i > Len(RequiredKeys) THEN 0
    ELSE IF RequiredKeys[i] \notin o THEN i
    ELSE FirstMissingFrom(o, i + 1)

FirstMissing(o) == FirstMissingFrom(o, 1)

\* variant: only server errors raise
RaisesForStatusServerOnly(status) == 500 <= status /\ status < 600
\* resp.raise_for_status(): requests raises HTTPError for 400 <= status < 600
RaisesForStatus(status) == 400 <= status /\ status < 600

TokenRequest(tenant) ==
    [method |-> "POST",
     url |-> <<"login.microsoftonline.com", tenant, "oauth2", "v2.0", "token">>,
     auth |-> [scheme |-> "none", credentials |-> Null],
     params |-> {},
     timeout |-> 30]

\* _get_azure_token, given the response of the POST
GetAzureToken(resp) ==
    IF resp.kind = "timeout" THEN [raised |-> Exc("Timeout"), value |-> Null]
    ELSE IF RaisesForStatus(resp.status)
         THEN [raised |-> HTTPError(resp.status), value |-> Null]
    ELSE IF ~resp.body.json
         THEN [raised |-> Exc("JSONDecodeError"), value |-> Null]
    ELSE IF resp.body.access_token = Missing
         THEN [raised |-> KeyError("access_token"), value |-> Null]
    ELSE [raised |-> NoError, value |-> resp.body.access_token]

\* variant: the header built from the client secret instead of the token
SessionAuthSecret(tok) == [scheme |-> "Bearer", credentials |-> OptValue("client_secret")]
\* self.sess.headers.update({"Authorization": f"Bearer {self.token}"})
SessionAuth(tok) == [scheme |-> "Bearer", credentials |-> tok]

\* opts.get("project", "default") never raises and nothing reads self.project
\* afterwards: the optional key is left out of the inputs
ConfigInputs == SUBSET Required

TokenStatuses == {200, 204, 300, 401, 500}
TokenBodies ==
    {[json |-> FALSE, access_token |-> Missing]}
    \cup {[json |-> TRUE, access_token |-> t] : t \in {Missing, "tok1", "tok2"}}
TokenResponses ==
    {[kind |-> "timeout", status |-> 0, body |-> [json |-> FALSE, access_token |-> Missing]]}
    \cup [kind : {"http"}, status : TokenStatuses, body : TokenBodies]

\* ADFSource.__init__
Construct(o, resp) ==
    /\ inst = "new"
    /\ opts' = o
    /\ IF FirstMissing(o) # 0
       THEN /\ inst' = "failed"
            /\ raised' = KeyError(RequiredKeys[FirstMissing(o)])
            /\ UNCHANGED <<tokenResp, token, sessAuth, api_version, netlog>>
       ELSE LET t == GetAzureToken(resp)
            IN  /\ tokenResp' = resp
                /\ netlog' = Append(netlog, TokenRequest(OptValue("tenant_id")))
                /\ raised' = t.raised
                /\ IF t.raised # NoError
                   THEN /\ inst' = "failed"
                        /\ UNCHANGED <<token, sessAuth, api_version>>
                   ELSE /\ inst' = "constructed"
                        /\ token' = t.value
                        /\ sessAuth' = SessionAuth(t.value)
                        /\ api_version' = "2018-06-01"
    /\ UNCHANGED <<closed, gen, page, listed, idx, emitted, passes, arg, ret>>

\* ADFSource.prepare
Prepare ==
    /\ inst = "constructed"
    /\ UNCHANGED <<opts, inst, raised, tokenResp, token, sessAuth, api_version, closed, netlog,
                   gen, page, listed, idx, emitted, passes, arg, ret>>

\* ADFSource.close: requests.Session.close() releases the pooled connections;
\* the session object stays usable, so nothing else of the instance changes
Close ==
    /\ inst = "constructed"
    /\ closed' = TRUE
    /\ UNCHANGED <<opts, inst, raised, tokenResp, token, sessAuth, api_version, netlog,
                   gen, page, listed, idx, emitted, passes, arg, ret>>

-----------------------------------------------------------------------------
(* _arm and _list_pipelines *)

ARM == "management.azure.com"

\* p = {"api-version": self.api_version}; if params: p.update(params)
ArmParams(version, params) ==
    DictUpdate({<<"api-version", version>>}, params)

\* the GET of _arm: url = urljoin(ARM, path) for a relative path
ArmRequest(path, params, auth, version) ==
    [method |-> "GET", url |-> <<ARM>> \o path, auth |-> auth,
     params |-> ArmParams(version, params), timeout |-> 60]

\* variant: r.raise_for_status() left out
ArmResultIgnoresStatus(resp) ==
    IF resp.kind = "timeout" THEN [raised |-> Exc("Timeout"), value |-> resp.body]
    ELSE IF ~resp.body.json
         THEN [raised |-> Exc("JSONDecodeError"), value |-> resp.body]
    ELSE [raised |-> NoError, value |-> resp.body]
\* r.raise_for_status(); return r.json()
ArmResult(resp) ==
    IF resp.kind = "timeout" THEN [raised |-> Exc("Timeout"), value |-> resp.body]
    ELSE IF RaisesForStatus(resp.status)
         THEN [raised |-> HTTPError(resp.status), value |-> resp.body]
    ELSE IF ~resp.body.json
         THEN [raised |-> Exc("JSONDecodeError"), value |-> resp.body]
    ELSE [raised |-> NoError, value |-> resp.body]

\* the path _list_pipelines builds from self.sub, self.rg, self.factory
PipelinesPath ==
    << "subscriptions", OptValue("subscription_id"),
       "resourceGroups", OptValue("resource_group"),
       "providers", "Microsoft.DataFactory",
       "factories", OptValue("factory_name"), "pipelines" >>

\* variant: the first element of the page is skipped
GetValueDropFirst(data) ==
    IF data.value.kind = "list" /\ data.value.items # <<>>
    THEN [kind |-> "list", items |-> Tail(data.value.items)]
    ELSE [kind |-> "list", items |-> <<>>]
\* data.get("value", []): the default only replaces a missing key
GetValue(data) ==
    IF data.value.kind = "missing" THEN [kind |-> "list", items |-> <<>>]
    ELSE data.value

-----------------------------------------------------------------------------
(* next_record *)

\* props = p.get("properties", {}): the default only replaces a missing key
GetProperties(p) ==
    IF p.properties.kind = "missing"
    THEN [kind |-> "dict", description |-> Missing,
          activities |-> [kind |-> "missing", items |-> <<>>]]
    ELSE p.properties

\* acts = props.get("activities", [])
GetActivities(props) ==
    IF props.activities.kind = "missing" THEN [kind |-> "list", items |-> <<>>]
    ELSE props.activities

\* p.get("id") or ""
SourceUrl(p) == OrElse(DictGet(p.id), "")

\* the body of the for loop, up to the yield: the record, or the exception
MakeRecord(p, service_name) ==
    LET name == DictGet(p.name)
        props == GetProperties(p)
    IN  IF props.kind # "dict" THEN [raised |-> Exc("AttributeError"), value |-> <<>>]
        ELSE LET tasks == BuildTasks(GetActivities(props))
             IN  IF tasks.raised # NoError THEN [raised |-> tasks.raised, value |-> <<>>]
                 ELSE [raised |-> NoError,
                       value |-> << [name |-> name,
                                     displayName |-> name,
                                     description |-> DictGet(props.description),
                                     service |-> [id |-> Null, type |-> "pipelineService",
                                                  name |-> service_name],
                                     tasks |-> tasks.value,
                                     sourceUrl |-> SourceUrl(p)] >>]

\* the loop of next_record from position i of the list: StopIteration at the
\* end, else the next record is yielded or building it raises
Advance(items, i) ==
    IF i >= Len(items)
    THEN /\ gen' = "exhausted"
         /\ raised' = NoError
         /\ UNCHANGED <<idx, emitted>>
    ELSE LET r == MakeRecord(items[i + 1], OptValue("service_name"))
         IN  /\ idx' = i + 1
             /\ raised' = r.raised
             /\ IF r.raised # NoError
                THEN gen' = "raised" /\ UNCHANGED emitted
                ELSE gen' = "suspended" /\ emitted' = emitted \o r.value

\* a call of next_record(): a generator is created, none of its body runs yet
NextRecord ==
    /\ inst = "constructed"
    /\ gen \in {"none", "exhausted", "raised"}
    /\ passes < MaxPasses
    /\ passes' = passes + 1
    /\ gen' = "created"
    /\ page' = [kind |-> "none"]
    /\ listed' = <<>>
    /\ idx' = 0
    /\ emitted' = <<>>
    /\ UNCHANGED <<opts, inst, raised, tokenResp, token, sessAuth, api_version, closed, netlog,
                   arg, ret>>

\* the first next() on the generator: _list_pipelines, then the loop up to
\* the first yield
GenFirst(resp) ==
    /\ gen = "created"
    /\ netlog' = Append(netlog, ArmRequest(PipelinesPath, {}, sessAuth, api_version))
    /\ page' = resp
    /\ LET data == ArmResult(resp)
       IN  IF data.raised # NoError
           THEN /\ gen' = "raised"
                /\ raised' = data.raised
                /\ UNCHANGED <<listed, idx, emitted>>
           ELSE LET v == GetValue(data.value)
                IN  IF v.kind # "list"
                    THEN \* for p in None
                         /\ gen' = "raised"
                         /\ raised' = Exc("TypeError")
                         /\ UNCHANGED <<listed, idx, emitted>>
                    ELSE /\ listed' = v.items
                         /\ Advance(v.items, 0)
    /\ UNCHANGED <<opts, inst, tokenResp, token, sessAuth, api_version, closed, passes, arg, ret>>

\* a later next() on the generator: the loop resumes after the yield
GenResume ==
    /\ gen = "suspended"
    /\ Advance(listed, idx)
    /\ UNCHANGED <<opts, inst, tokenResp, token, sessAuth, api_version, closed, netlog,
                   page, listed, passes, arg, ret>>

-----------------------------------------------------------------------------
(* Listing pages *)

CopyA1 == [name |-> "a1", type |-> "Copy",
           typeProperties |-> [kind |-> "dict",
                               sink |-> [kind |-> "dict", type |-> "BlobSink"]]]
WaitA2 == [name |-> "a2", type |-> "Wait",
           typeProperties |-> [kind |-> "missing", sink |-> NoSink("missing")]]
Bare == [name |-> Missing, type |-> Missing,
         typeProperties |-> [kind |-> "missing", sink |-> NoSink("missing")]]
CopyNullProps == [name |-> "a3", type |-> "Copy",
                  typeProperties |-> [kind |-> "null", sink |-> NoSink("missing")]]

PageActivityLists ==
    {[kind |-> k, items |-> <<>>] : k \in {"missing", "null"}}
    \cup {[kind |-> "list", items |-> s] :
            s \in {<<CopyA1, WaitA2>>, <<Bare>>, <<CopyA1, CopyNullProps>>}}

NoProperties(k) ==
    [kind |-> k, description |-> Missing,
     activities |-> [kind |-> "missing", items |-> <<>>]]

PipelineB ==
    [name |-> "B", id |-> "/B",
     properties |-> [kind |-> "dict", description |-> Null,
                     activities |-> [kind |-> "list", items |-> <<WaitA2>>]]]

Pipelines ==
    {[name |-> "A", id |-> "/A",
      properties |-> [kind |-> "dict", description |-> "d", activities |-> a]] :
        a \in PageActivityLists}
    \cup {[name |-> "B", id |-> Missing, properties |-> NoProperties("missing")],
          [name |-> "B", id |-> "", properties |-> NoProperties("null")],
          PipelineB}

ListBodies ==
    {[json |-> FALSE, value |-> [kind |-> "missing", items |-> <<>>], nextLink |-> FALSE]}
    \cup {[json |-> TRUE, value |-> [kind |-> k, items |-> <<>>], nextLink |-> n] :
            k \in {"missing", "null"}, n \in BOOLEAN}
    \cup {[json |-> TRUE, value |-> [kind |-> "list", items |-> s], nextLink |-> n] :
            s \in SeqsUpTo(Pipelines, MaxPipes), n \in BOOLEAN}

\* a body the error responses carry: what it holds is never read
OnePipelineBody ==
    [json |-> TRUE, nextLink |-> FALSE,
     value |-> [kind |-> "list", items |-> <<PipelineB>>]]

ListResponses ==
    {[kind |-> "timeout", status |-> 0,
      body |-> [json |-> FALSE, value |-> [kind |-> "missing", items |-> <<>>],
                nextLink |-> FALSE]]}
    \cup [kind : {"http"}, status : {200, 300}, body : ListBodies]
    \cup [kind : {"http"}, status : {404, 500}, body : {OnePipelineBody}]

-----------------------------------------------------------------------------
(* The extractor driven by its host: construct, prepare, iterate, close *)

\* the token responses the lifecycle is explored under
HostTokenResponses ==
    {r \in TokenResponses :
        \/ r.kind = "http" /\ r.status = 200 /\ r.body.json /\ r.body.access_token # Missing
        \/ r.kind = "http" /\ r.status = 401 /\ ~r.body.json}

Init ==
    /\ InitIdle
    /\ arg = [kind |-> "none"]
    /\ ret = [state |-> "none"]

Next ==
    \/ \E o \in ConfigInputs, resp \in HostTokenResponses : Construct(o, resp)
    \/ Prepare
    \/ NextRecord
    \/ \E resp \in ListResponses : GenFirst(resp)
    \/ GenResume
    \/ Close

Spec == Init /\ [][Next]_vars

-----------------------------------------------------------------------------
(* Construction alone, under every configuration and token response *)

NextInit == \E o \in ConfigInputs, resp \in TokenResponses : Construct(o, resp)

SpecInit == Init /\ [][NextInit]_vars

-----------------------------------------------------------------------------
(* Direct calls of _arm on a constructed instance *)

MaxArmCalls == 2   \* most direct _arm calls on one instance

ArmPaths == {PipelinesPath, <<"subscriptions">>}

ArmParamInputs ==
    {{}} \cup {{<<"$filter", "x">>}}
    \cup {{<<"api-version", v>>} : v \in {"2018-06-01", "2020-01-01"}}
    \cup {{<<"api-version", "2020-01-01">>, <<"$filter", "x">>}}

ArmResponses ==
    {r \in ListResponses :
        r.kind = "http" => r.body \in {OnePipelineBody,
                                       [json |-> FALSE, nextLink |-> FALSE,
                                        value |-> [kind |-> "missing", items |-> <<>>]]}}

\* ADFSource._arm(path, params)
ArmCall(path, params, resp) ==
    /\ inst = "constructed"
    /\ Len(netlog) <= MaxArmCalls
    /\ arg' = [path |-> path, params |-> params]
    /\ netlog' = Append(netlog, ArmRequest(path, params, sessAuth, api_version))
    /\ LET r == ArmResult(resp)
       IN  ret' = [state |-> "done", raised |-> r.raised, value |-> r.value]
    /\ UNCHANGED <<opts, inst, raised, tokenResp, token, sessAuth, api_version, closed,
                   gen, page, listed, idx, emitted, passes>>

NextArm ==
    \/ \E o \in ConfigInputs, resp \in HostTokenResponses : Construct(o, resp)
    \/ \E path \in ArmPaths, params \in ArmParamInputs, resp \in ArmResponses :
          ArmCall(path, params, resp)

SpecArm == Init /\ [][NextArm]_vars

-----------------------------------------------------------------------------
(* Properties *)

TokenRequests == {i \in 1..Len(netlog) : netlog[i].method = "POST"}
ListRequests == {i \in 1..Len(netlog) : netlog[i].method = "GET"}

\* C1: a configuration that lacks a required option makes __init__ fail with
\* the configuration error (the KeyError of the opts[...] lookup, naming a
\* key the configuration lacks), and no request has been issued by then.
C1_MissingOptionFailsBeforeNetwork ==
    (inst # "new" /\ ~(Required \subseteq opts)) =>
        /\ inst = "failed"
        /\ raised.type = "KeyError"
        /\ raised.key \in Required \ opts
        /\ netlog = <<>>
        /\ tokenResp.kind = "none"
        /\ token = Null

C1_Witness ==
    /\ inst = "failed"
    /\ opts = Required \ {"service_name"}
    /\ raised = KeyError("service_name")
    /\ netlog = <<>>

C2_TokenKeptFrom300 ==
    /\ inst = "constructed"
    /\ tokenResp.kind = "http"
    /\ tokenResp.status = 300
    /\ token = tokenResp.body.access_token

StartedPasses == IF gen = "created" THEN passes - 1 ELSE passes

C3_RecordsFrom300 ==
    /\ gen = "exhausted"
    /\ page.kind = "http"
    /\ page.status = 300
    /\ Len(emitted) = 2

HasSinkType(a) ==
    /\ a.type = "Copy"
    /\ a.typeProperties.kind = "dict"
    /\ a.typeProperties.sink.kind = "dict"
    /\ a.typeProperties.sink.type \notin {Missing, Null, ""}

Returned == ret.state = "done" /\ ret.raised = NoError /\ arg.kind = "list"

\* C4: each Task _build_tasks returns has downstreamTasks = [s] exactly when
\* its descriptor is a Copy whose typeProperties.sink.type is present with the
\* non-empty value s, and downstreamTasks = None otherwise: never an empty
\* list, never more than one element.
C4_DownstreamOnlyForCopySink ==
    Returned =>
        /\ Len(ret.value) = Len(arg.items)
        /\ \A i \in 1..Len(ret.value) :
              LET a == arg.items[i]
                  d == ret.value[i].downstreamTasks
              IN  /\ HasSinkType(a) => d = SomeList(<<a.typeProperties.sink.type>>)
                  /\ ~HasSinkType(a) => d = NoneList
                  /\ ~d.isNone => Len(d.items) = 1

C4_Witness ==
    /\ Returned
    /\ Len(arg.items) = 1
    /\ arg.items[1].type = "Copy"
    /\ arg.items[1].typeProperties.kind = "dict"
    /\ arg.items[1].typeProperties.sink.kind = "dict"
    /\ arg.items[1].typeProperties.sink.type = "AzureBlobSink"
    /\ ret.value[1].downstreamTasks = SomeList(<<"AzureBlobSink">>)

\* the tasks of a record are one per activity of its pipeline, in order
TasksFollow(tasks, acts) ==
    /\ Len(tasks) = Len(acts)
    /\ \A j \in 1..Len(tasks) :
          /\ tasks[j].name = (IF acts[j].name \in {Missing, Null, ""}
                              THEN "activity" ELSE acts[j].name)
          /\ tasks[j].taskType = (IF acts[j].type \in {Missing, Null, ""}
                                  THEN "Activity" ELSE acts[j].type)

ActivitiesOf(p) ==
    IF p.properties.kind = "dict" /\ p.properties.activities.kind = "list"
    THEN p.properties.activities.items
    ELSE <<>>

\* the i-th record is the record of the i-th pipeline of the page
RecordFollows(r, p) ==
    /\ r.name = p.name
    /\ r.displayName = p.name
    /\ r.sourceUrl = (IF p.id \in {Missing, Null, ""} THEN "" ELSE p.id)
    /\ TasksFollow(r.tasks, ActivitiesOf(p))

PageItems ==
    IF page.kind = "http" /\ page.body.json /\ page.body.value.kind = "list"
    THEN page.body.value.items
    ELSE <<>>

\* C5: the records a pass emits are one per pipeline taken from the page, in
\* the page's order, each with one task per activity in the activities'
\* order; a pass that runs to its end has emitted one record per pipeline.
C5_OrderPreserved ==
    /\ Len(emitted) <= Len(PageItems)
    /\ \A i \in 1..Len(emitted) : RecordFollows(emitted[i], PageItems[i])
    /\ gen = "suspended" => Len(emitted) = idx
    /\ gen = "exhausted" => Len(emitted) = Len(PageItems)

C5_Witness ==
    /\ gen = "exhausted"
    /\ Len(emitted) = 2
    /\ emitted[1].name = "A"
    /\ Len(emitted[1].tasks) = 2
    /\ emitted[1].tasks[1].name = "a1"
    /\ emitted[1].tasks[2].name = "a2"
    /\ emitted[2].name = "B"
    /\ Len(emitted[2].tasks) = 1

\* C6 as stated: _build_tasks never raises, whatever is missing, null or
\* malformed in an activity descriptor, and returns one Task per descriptor.
C6_BuildTasksNeverRaises ==
    ret.state = "done" =>
        /\ ret.raised = NoError
        /\ arg.kind = "list" => Len(ret.value) = Len(arg.items)

\* C7: each Task _build_tasks returns is named after its descriptor's name
\* when that is present and non-empty and "activity" otherwise, and typed
\* after its descriptor's type when that is present and non-empty and
\* "Activity" otherwise.
C7_NameAndTypeFallback ==
    Returned => TasksFollow(ret.value, arg.items)

C7_Witness ==
    /\ Returned
    /\ Len(arg.items) = 1
    /\ arg.items[1].name = Missing
    /\ arg.items[1].type = Missing
    /\ ret.value[1].name = "activity"
    /\ ret.value[1].taskType = "Activity"

\* _arm returned the page's body: no timeout, no error status, a JSON body
PageReturned ==
    /\ page.kind = "http"
    /\ ~(400 <= page.status /\ page.status <= 599)
    /\ page.body.json

\* C8: every pass that has started issued exactly one listing request,
\* whether or not the page names a continuation; what it iterates is the
\* value array of that page, its records follow that array, and a page
\* without a value field ends the pass with no record and no error.
C8_SinglePageOnly ==
    /\ Cardinality(ListRequests) = StartedPasses
    /\ (PageReturned /\ page.body.value.kind = "list") =>
          /\ listed = page.body.value.items
          /\ Len(emitted) <= Len(listed)
          /\ \A i \in 1..Len(emitted) : emitted[i].name = listed[i].name
          /\ gen = "exhausted" => Len(emitted) = Len(listed)
    /\ (PageReturned /\ page.body.value.kind = "missing") =>
          /\ gen = "exhausted"
          /\ listed = <<>>
          /\ emitted = <<>>
          /\ raised = NoError

C8_Witness ==
    /\ gen = "exhausted"
    /\ page.kind = "http"
    /\ page.body.nextLink
    /\ Len(emitted) = 2
    /\ passes = 1
    /\ Cardinality(ListRequests) = 1

\* C9: a constructed instance asked the token endpoint exactly once, as its
\* first request; every later request is a listing GET carrying that token
\* as its Bearer credentials; without a constructed instance there is at
\* most one token request and no listing request.
C9_OneTokenForEveryListing ==
    /\ Cardinality(TokenRequests) <= 1
    /\ TokenRequests \subseteq {1}
    /\ inst # "constructed" => ListRequests = {} /\ token = Null
    /\ inst = "constructed" =>
          /\ TokenRequests = {1}
          /\ token = tokenResp.body.access_token
          /\ \A i \in ListRequests :
                netlog[i].auth = [scheme |-> "Bearer", credentials |-> token]

C9_Witness ==
    /\ inst = "constructed"
    /\ token = "tok2"
    /\ passes = 2
    /\ gen = "exhausted"
    /\ Cardinality(ListRequests) = 2
    /\ \A i \in ListRequests : netlog[i].auth.credentials = "tok2"

\* C10 as stated: every GET of _arm carries api-version = "2018-06-01", and
\* no other api-version, whatever extra parameters the caller passed.
C10_ApiVersionFixed ==
    \A i \in ListRequests :
        {kv \in netlog[i].params : kv[1] = "api-version"} = {<<"api-version", "2018-06-01">>}

====
